---- MODULE Spec2Model ----
(***************************************************************************)
(* A model of pew, a micro-benchmarking harness:                           *)
(*   src/src/clock.rs      Clock  (pause / resume / stop over CPU time)    *)
(*   src/src/state.rs      State  (a Clock and a single-use input)         *)
(*   src/src/benchmark.rs  Benchmark (builder, generator chain, run loop)  *)
(*   src/src/config.rs     Config (filter, min_duration, min_runs)         *)
(*                                                                         *)
(* The process is single threaded.  A panic ends the process.              *)
(*                                                                         *)
(* u64 values of the range loop are kept modulo 2^WordBits (TLC's integers *)
(* are 32 bits wide, so the 64 bit word is scaled down; U64Max plays the   *)
(* part of u64::MAX).  Times are nanoseconds and stay far below the word   *)
(* size, as CPU time of a process does.                                    *)
(***************************************************************************)
EXTENDS Integers, Sequences, FiniteSets, TLC

\* ------------------------------------------------------------------ bounds
WordBits == 24          \* width of the model's u64 word
MaxNanos == 1           \* the CPU clock reads s seconds + at most MaxNanos ns
MaxReps == 3            \* repetitions explored for one configuration
MaxVisits == 3          \* range values explored in one run()
MaxFns == 2             \* functions registered on one benchmark
MaxGens == 2            \* generators registered on one benchmark
MaxCalls == 3           \* State calls made by one benchmark function (SpecState)
LiveSlices == 2         \* SpecLive: a repetition takes at least 1/LiveSlices s

\* ------------------------------------------------------- program constants
NanosPerSec == 1000000000
MinMinRuns == 2
DefaultLowerBound == 1
DefaultUpperBoundShift == 20
DefaultMul == 2

\* ------------------------------------------------------------ u64 helpers
RECURSIVE Pow(_, _)
Pow(b, e) == IF e = 0 THEN 1 ELSE b * Pow(b, e - 1)

Modulus == Pow(2, WordBits)
U64Max == Modulus - 1
Half == Modulus \div 2

Max(a, b) == IF a >= b THEN a ELSE b

\* The times the CPU clock can read, in ns.
Secs == { 0, 1 }
Times == { s * NanosPerSec + r : s \in Secs, r \in 0..MaxNanos }

\* --------------------------------------------------------------- messages
NoPanic == ""
EmptyBenchmarkMsg == "Cannot call run on an empty benchmark"
PauseMsg == "Cannot pause an already paused clock"
ResumeMsg == "Cannot resume an already running clock"
StopMsg == "Cannot stop a paused clock"
OverflowMsg == "attempt to multiply with overflow"
HeaderLine == "Name,Time (ns)"

\* ----------------------------------------------------------------- inputs
\* Command line arguments of the process (clap's matches): the filter is
\* absent or a pattern; min_duration is in seconds; min_runs is a u8.
None == "<none>"
CliArgs ==
    { [filter |-> None,              min_duration |-> 0, min_runs |-> 1],
      [filter |-> "bm_vector_gen",   min_duration |-> 0, min_runs |-> 3],
      [filter |-> "nonexistent",     min_duration |-> 1, min_runs |-> 2],
      [filter |-> "(",               min_duration |-> 1, min_runs |-> 0] }

\* Benchmark functions of user code, each the sequence of State calls its body
\* makes (examples/example1.rs; bm_vector_1 is bin/example1.rs).
bm_vector_range == <<"get_input", "pause", "resume">>
bm_vector_gen == <<"get_input">>
bm_vector_1 == <<"pause", "get_input", "resume">>
\* A function that breaks the contract of State: it returns after pause().
bm_paused == <<"pause">>
Benches == { <<"bm_vector_range", bm_vector_range>>,
             <<"bm_vector_gen", bm_vector_gen>>,
             <<"bm_vector_1", bm_vector_1>>,
             <<"bm_paused", bm_paused>> }

Names == { "example", "other" }
LowerBounds == { 1, 2, Half }
UpperBounds == { 1, 2, U64Max }
Muls == { 0, 1, 2, 3 }
Generators == { "gen_double", "gen_succ" }

\* The main functions of user code: each a sequence of builder calls, every
\* benchmark ending in run().
S(op, a) == [op |-> op, a |-> a]
Programs ==
    << \* examples/example1.rs, one function over a range
       << S("with_name", "example"), S("with_range", <<1, 2, 2>>),
          S("with_bench", <<"bm_vector_range", bm_vector_range>>), S("run", 0) >>,
       \* two generators and two functions
       << S("with_name", "example"), S("with_range", <<1, 2, 2>>),
          S("with_generator", "gen_succ"), S("with_generator", "gen_double"),
          S("with_bench", <<"bm_vector_gen", bm_vector_gen>>),
          S("with_bench", <<"bm_vector_range", bm_vector_range>>), S("run", 0) >>,
       \* a generator registered after a function
       << S("with_name", "example"), S("with_range", <<1, 2, 2>>),
          S("with_bench", <<"bm_vector_gen", bm_vector_gen>>),
          S("with_generator", "gen_succ"), S("run", 0) >>,
       \* a range that reaches the end of the u64 word
       << S("with_name", "example"), S("with_lower_bound", Half),
          S("with_upper_bound", U64Max),
          S("with_bench", <<"bm_vector_gen", bm_vector_gen>>), S("run", 0) >>,
       \* two benchmarks in one process
       << S("with_name", "example"), S("with_range", <<2, 2, 2>>),
          S("with_bench", <<"bm_vector_gen", bm_vector_gen>>), S("run", 0),
          S("with_name", "other"), S("with_range", <<2, 2, 2>>),
          S("with_bench", <<"bm_vector_range", bm_vector_range>>), S("run", 0) >>,
       \* an empty range, then a benchmark that runs
       << S("with_name", "example"), S("with_range", <<2, 1, 3>>),
          S("with_bench", <<"bm_vector_gen", bm_vector_gen>>), S("run", 0),
          S("with_name", "other"), S("with_upper_bound", 1),
          S("with_bench", <<"bm_vector_gen", bm_vector_gen>>), S("run", 0) >>,
       \* a benchmark that prints, then one without functions
       << S("with_name", "example"), S("with_range", <<2, 2, 2>>),
          S("with_bench", <<"bm_vector_gen", bm_vector_gen>>), S("run", 0),
          S("with_name", "other"), S("run", 0) >>,
       \* bin/example1.rs: get_input inside a paused section
       << S("with_name", "example"), S("with_mul", 3),
          S("with_bench", <<"bm_vector_1", bm_vector_1>>), S("run", 0) >>,
       \* a multiplier of 1 on a range that is not empty
       << S("with_name", "example"), S("with_range", <<1, 2, 1>>),
          S("with_bench", <<"bm_vector_gen", bm_vector_gen>>), S("run", 0) >>,
       \* a multiplier of 0 on a range that is not empty
       << S("with_name", "example"), S("with_range", <<2, 2, 2>>), S("with_mul", 0),
          S("with_bench", <<"bm_vector_gen", bm_vector_gen>>), S("run", 0) >>,
       \* a multiplier of 1 on an empty range
       << S("with_name", "example"), S("with_range", <<2, 1, 1>>),
          S("with_bench", <<"bm_vector_gen", bm_vector_gen>>), S("run", 0) >>,
       \* a function that returns with its State paused, between others
       << S("with_name", "example"), S("with_range", <<2, 2, 2>>),
          S("with_bench", <<"bm_vector_gen", bm_vector_gen>>),
          S("with_bench", <<"bm_paused", bm_paused>>), S("run", 0),
          S("with_name", "other"), S("with_range", <<2, 2, 2>>),
          S("with_bench", <<"bm_vector_gen", bm_vector_gen>>), S("run", 0) >> >>

\* ------------------------------------------------------------------ Regex
\* The patterns of CliArgs are literals, which match by containment, or
\* malformed ("(": an unclosed group), which Regex::new rejects.
RegexNewOk(s) == s # "("

RECURSIVE ContainsFrom(_, _, _)
ContainsFrom(text, pat, k) ==
    IF k + Len(pat) - 1 > Len(text) THEN FALSE
    ELSE IF SubSeq(text, k, k + Len(pat) - 1) = pat THEN TRUE
    ELSE ContainsFrom(text, pat, k + 1)

is_match(filter, text) == ContainsFrom(text, filter, 1)

\* ----------------------------------------------------------------- Config
create_config_KeepsFilter(args) ==
    [ filter |-> IF args.filter = None THEN "" ELSE args.filter,
      min_duration |-> args.min_duration * NanosPerSec,
      min_runs |-> Max(args.min_runs, MinMinRuns) ]

create_config_RawMinRuns(args) ==
    [ filter |-> IF args.filter = None THEN ""
                 ELSE IF RegexNewOk(args.filter) THEN args.filter
                 ELSE "",
      min_duration |-> args.min_duration * NanosPerSec,
      min_runs |-> args.min_runs ]

create_config(args) ==
    [ filter |-> IF args.filter = None THEN ""
                 ELSE IF RegexNewOk(args.filter) THEN args.filter
                 ELSE "",
      min_duration |-> args.min_duration * NanosPerSec,
      min_runs |-> Max(args.min_runs, MinMinRuns) ]

\* ------------------------------------------------------------------ Clock
ClockNew(t) == [is_paused |-> FALSE, start_time |-> t, elapsed_time |-> 0]

ClockPause_StaysRunning(c, t) ==
    [c EXCEPT !.elapsed_time = c.elapsed_time + (t - c.start_time)]

ClockPause(c, t) ==
    [c EXCEPT !.elapsed_time = c.elapsed_time + (t - c.start_time),
              !.is_paused = TRUE]

ClockResume_AddsElapsed(c, t) ==
    [c EXCEPT !.is_paused = FALSE, !.start_time = t,
              !.elapsed_time = c.elapsed_time + (t - c.start_time)]

ClockResume_KeepsStart(c, t) == [c EXCEPT !.is_paused = FALSE]

ClockResume(c, t) == [c EXCEPT !.is_paused = FALSE, !.start_time = t]

ClockStop(c, t) == c.elapsed_time + t - c.start_time

\* Clock::now(): CPU time never runs backwards.
NowReads(last) == { t \in Times : t >= last }

\* ------------------------------------------------------------------ State
Default == 0
NoState == [none |-> TRUE]
StateNewOf(input, t) == [clock |-> ClockNew(t), input |-> input]

ReplaceInput_Clones(s) == s

\* mem::replace(&mut self.input, T::default())
ReplaceInput(s) == [s EXCEPT !.input = Default]

\* -------------------------------------------------------------- generators
ApplyGen(g, x) ==
    CASE g = "gen_double" -> (2 * x) % Modulus
      [] g = "gen_succ" -> (x + 1) % Modulus

range_generator == [fn |-> "range_generator"]

compose_Replaces(f, g) == [fn |-> "compose", f |-> range_generator, g |-> g]

compose(f, g) == [fn |-> "compose", f |-> f, g |-> g]

\* Calling the boxed closure: range_generator returns i, and the closure
\* built by compose returns g(f(i)).
RECURSIVE Call(_, _)
Call(c, x) ==
    IF c.fn = "range_generator" THEN x
    ELSE ApplyGen(c.g, Call(c.f, x))

RECURSIVE ChainLen(_)
ChainLen(c) == IF c.fn = "range_generator" THEN 0 ELSE 1 + ChainLen(c.f)

\* -------------------------------------------------------------- Benchmark
NoBench == [none |-> TRUE]

should_run_bm_All(cfg, bm_name) == TRUE

should_run_bm(cfg, bm_name) == is_match(cfg.filter, bm_name)

BmName(name, fname, k) == name \o "/" \o fname \o "/" \o ToString(k)

RowLine_Total(bm_name, total, n) == bm_name \o "," \o ToString(total)

RowLine(bm_name, total, n) == bm_name \o "," \o ToString(total \div n)

KeepRunning_OneMore(cfg, n, total) ==
    n < cfg.min_runs + 1 \/ total < cfg.min_duration

KeepRunning_RunsOnly(cfg, n, total) == n < cfg.min_runs

\* The condition of the repetition loop.
KeepRunning(cfg, n, total) == n < cfg.min_runs \/ total < cfg.min_duration

\* -------------------------------------------------------------- variables
VARIABLES
    config,          \* PEW_CONFIG, the lazily created Config of the process
    build,           \* "debug" panics on u64 overflow, "release" wraps; "any"
                     \* until the process meets an overflow
    prog, ppc,       \* the main function (0: any main) and its next statement
    HEADER,          \* the Once: TRUE once the header closure has run
    out,             \* the lines printed to stdout
    panic,           \* the message of the panic that ended the process, or ""
    pc,              \* where the process is
    bm,              \* the Benchmark value under construction or running
    registered,      \* history: the generators given to with_generator, in order
    i, input, j,     \* run(): range value, gen(i), index of the function
    runs, total_duration,
    times,           \* history: the values finish() returned in the repetitions
                     \* of the configuration under way
    visited,         \* history: the values of i the loop body ran for
    generated,       \* history: the values the generator was called with by run()
    state,           \* the State of the repetition under way
    fpc,             \* the next call of the benchmark function's body
    now,             \* the last reading of the CPU clock
    calls,           \* history: the Clock calls on state, with their readings
    got,             \* history: the values get_input returned on state
    ret              \* history: <<the value finish() returned last>>

vars == << config, build, prog, ppc, HEADER, out, panic, pc, bm,
           registered, i, input, j, runs, total_duration, times, visited,
           generated, state,
           fpc, now, calls, got, ret >>

procVars == << config, build, prog >>
outVars == << HEADER, out >>
loopVars == << i, input, j, runs, total_duration, times, visited, generated >>
stateVars == << state, fpc, now, calls, got, ret >>

Event(op, t, ok) == [op |-> op, t |-> t, ok |-> ok]

\* The body of the function run() is repeating.
Body == bm.fns[j][2]

\* The main function under way.
Main == Programs[prog]

\* ------------------------------------------------------------------- Init
InitCommon ==
    /\ HEADER = FALSE
    /\ out = << >>
    /\ panic = NoPanic
    /\ build = "any"
    /\ pc = "main"
    /\ ppc = 1
    /\ bm = NoBench
    /\ registered = << >>
    /\ i = 0 /\ input = 0 /\ j = 0
    /\ runs = 0 /\ total_duration = 0 /\ times = << >>
    /\ visited = << >>
    /\ generated = << >>
    /\ state = NoState
    /\ fpc = 0
    /\ now = 0
    /\ calls = << >>
    /\ got = << >>
    /\ ret = << >>

Init ==
    /\ config \in { create_config(a) : a \in CliArgs }
    /\ prog \in DOMAIN Programs
    /\ InitCommon

\* ---------------------------------------------------------------- builder
with_name(name) ==
    [ name |-> name,
      fns |-> << >>,
      range |-> << DefaultLowerBound, Pow(2, DefaultUpperBoundShift), DefaultMul >>,
      generator |-> range_generator ]

with_lower_bound(self, lb) == [self EXCEPT !.range[1] = lb]

with_upper_bound(self, ub) == [self EXCEPT !.range[2] = ub]

with_mul(self, mul) == [self EXCEPT !.range[3] = mul]

with_range(self, lb, ub, mul) == [self EXCEPT !.range = << lb, ub, mul >>]

with_generator_KeepsFns(self, gen) ==
    [ name |-> self.name,
      fns |-> self.fns,
      range |-> self.range,
      generator |-> compose(self.generator, gen) ]

with_generator(self, gen) ==
    [ name |-> self.name,
      fns |-> << >>,
      range |-> self.range,
      generator |-> compose(self.generator, gen) ]

with_bench_Replaces(self, t) == [self EXCEPT !.fns = << t >>]

with_bench(self, t) == [self EXCEPT !.fns = Append(self.fns, t)]

\* The main function calls op with argument a next (any main: every call).
Stmt(op, a) ==
    /\ pc = "main"
    /\ \/ prog = 0
       \/ /\ prog # 0
          /\ ppc <= Len(Main)
          /\ Main[ppc].op = op
          /\ Main[ppc].a = a

Building == bm # NoBench

BuilderFrame ==
    /\ ppc' = (IF prog = 0 THEN ppc ELSE ppc + 1)
    /\ UNCHANGED << procVars, outVars, panic, pc, loopVars, stateVars >>

WithName ==
    /\ bm = NoBench
    /\ \E name \in Names :
          /\ Stmt("with_name", name)
          /\ bm' = with_name(name)
    /\ registered' = << >>
    /\ BuilderFrame

WithLowerBound ==
    /\ Building
    /\ \E lb \in LowerBounds :
          /\ Stmt("with_lower_bound", lb)
          /\ bm' = with_lower_bound(bm, lb)
    /\ UNCHANGED registered
    /\ BuilderFrame

WithUpperBound ==
    /\ Building
    /\ \E ub \in UpperBounds :
          /\ Stmt("with_upper_bound", ub)
          /\ bm' = with_upper_bound(bm, ub)
    /\ UNCHANGED registered
    /\ BuilderFrame

WithMul ==
    /\ Building
    /\ \E mul \in Muls :
          /\ Stmt("with_mul", mul)
          /\ bm' = with_mul(bm, mul)
    /\ UNCHANGED registered
    /\ BuilderFrame

WithRange ==
    /\ Building
    /\ \E lb \in LowerBounds, ub \in UpperBounds, mul \in Muls :
          /\ Stmt("with_range", << lb, ub, mul >>)
          /\ bm' = with_range(bm, lb, ub, mul)
    /\ UNCHANGED registered
    /\ BuilderFrame

WithGenerator ==
    /\ Building
    /\ ChainLen(bm.generator) < MaxGens
    /\ \E g \in Generators :
          /\ Stmt("with_generator", g)
          /\ bm' = with_generator(bm, g)
          /\ registered' = Append(registered, g)
    /\ BuilderFrame

WithBench ==
    /\ Building
    /\ Len(bm.fns) < MaxFns
    /\ \E t \in Benches :
          /\ Stmt("with_bench", t)
          /\ bm' = with_bench(bm, t)
    /\ UNCHANGED registered
    /\ BuilderFrame

\* ------------------------------------------------------------------ run()
Panic(msg) == panic' = msg /\ pc' = "panicked"

\* i *= mul on a u64: the product, when it fits the word.
MulFits(a, b) == a * b <= U64Max
MulWrapped(a, b) == (a * b) % Modulus

\* (run() without its check: the loop starts on the empty function list)
RunEmpty_Unchecked ==
    /\ Building
    /\ Stmt("run", 0)
    /\ Len(bm.fns) = 0
    /\ i' = bm.range[1]
    /\ visited' = << >>
    /\ generated' = << >>
    /\ pc' = "while_i"
    /\ UNCHANGED << procVars, outVars, panic, ppc, bm, registered,
                    input, j, runs, total_duration, times, stateVars >>

\* run() of a benchmark without functions panics before anything else.
RunEmpty ==
    /\ Building
    /\ Stmt("run", 0)
    /\ Len(bm.fns) = 0
    /\ Panic(EmptyBenchmarkMsg)
    /\ UNCHANGED << procVars, ppc, outVars, bm, registered, loopVars, stateVars >>

RunStart ==
    /\ Building
    /\ Stmt("run", 0)
    /\ Len(bm.fns) # 0
    /\ i' = bm.range[1]
    /\ visited' = << >>
    /\ generated' = << >>
    /\ pc' = "while_i"
    /\ UNCHANGED << procVars, outVars, panic, ppc, bm, registered,
                    input, j, runs, total_duration, times, stateVars >>

\* while i <= ub { let input = gen(i); for (name, f) in &self.fns ...
RangeBody ==
    /\ pc = "while_i"
    /\ i <= bm.range[2]
    /\ Len(visited) < MaxVisits
    /\ input' = Call(bm.generator, i)
    /\ visited' = Append(visited, i)
    /\ generated' = Append(generated, i)
    /\ j' = 1
    /\ pc' = "for_fns"
    /\ UNCHANGED << procVars, outVars, panic, ppc, bm, registered,
                    i, runs, total_duration, times, stateVars >>

\* The loop ends and run(self) returns: the benchmark is consumed.
RunReturn ==
    /\ pc = "while_i"
    /\ ~(i <= bm.range[2])
    /\ bm' = NoBench
    /\ pc' = "main"
    /\ ppc' = (IF prog = 0 THEN ppc ELSE ppc + 1)
    /\ UNCHANGED << procVars, outVars, panic, registered, loopVars, stateVars >>

\* (a for loop that ends at the first name the filter rejects)
FnSelect_StopsAtSkip ==
    /\ pc = "for_fns"
    /\ j <= Len(bm.fns)
    /\ LET bm_name == BmName(bm.name, bm.fns[j][1], i) IN
          IF should_run_bm(config, bm_name)
          THEN /\ runs' = 0
               /\ total_duration' = 0
               /\ times' = << >>
               /\ pc' = "while_rep"
               /\ UNCHANGED j
          ELSE /\ j' = Len(bm.fns) + 1
               /\ UNCHANGED << runs, total_duration, times, pc >>
    /\ UNCHANGED << procVars, outVars, panic, ppc, bm, registered,
                    i, input, visited, generated, stateVars >>

\* One function of the for loop: skipped when the filter rejects its name.
FnSelect ==
    /\ pc = "for_fns"
    /\ j <= Len(bm.fns)
    /\ LET bm_name == BmName(bm.name, bm.fns[j][1], i) IN
          IF should_run_bm(config, bm_name)
          THEN /\ runs' = 0
               /\ total_duration' = 0
               /\ times' = << >>
               /\ pc' = "while_rep"
               /\ UNCHANGED j
          ELSE /\ j' = j + 1
               /\ UNCHANGED << runs, total_duration, times, pc >>
    /\ UNCHANGED << procVars, outVars, panic, ppc, bm, registered,
                    i, input, visited, generated, stateVars >>

\* (a loop that corrects a multiplier below 2 to 2)
RangeNext_CorrectsMul ==
    /\ pc = "for_fns"
    /\ j > Len(bm.fns)
    /\ MulFits(i, Max(bm.range[3], DefaultMul))
    /\ i' = i * Max(bm.range[3], DefaultMul)
    /\ pc' = "while_i"
    /\ UNCHANGED << procVars, panic, outVars, ppc, bm, registered,
                    input, j, runs, total_duration, times, visited, generated,
                    stateVars >>

\* The for loop is over: i *= mul.
RangeNext ==
    /\ pc = "for_fns"
    /\ j > Len(bm.fns)
    /\ IF MulFits(i, bm.range[3])
       THEN i' = i * bm.range[3] /\ pc' = "while_i" /\ UNCHANGED << panic, build >>
       ELSE \E b \in (IF build = "any" THEN { "debug", "release" } ELSE { build }) :
               /\ build' = b
               /\ IF b = "debug"
                  THEN Panic(OverflowMsg) /\ UNCHANGED i
                  ELSE /\ i' = MulWrapped(i, bm.range[3])
                       /\ pc' = "while_i"
                       /\ UNCHANGED panic
    /\ UNCHANGED << config, prog, outVars, ppc, bm, registered,
                    input, j, runs, total_duration, times, visited, generated, stateVars >>

\* (a repetition that hands run()'s own input to the State, not a clone)
StateNew_MovesInput ==
    /\ pc = "while_rep"
    /\ KeepRunning(config, runs, total_duration)
    /\ runs < MaxReps
    /\ input' = Default
    /\ \E t \in NowReads(now) :
          /\ now' = t
          /\ state' = StateNewOf(input, t)
          /\ calls' = << Event("new", t, TRUE) >>
    /\ got' = << >>
    /\ fpc' = 1
    /\ pc' = "bench"
    /\ UNCHANGED << procVars, outVars, panic, ppc, bm, registered,
                    i, j, runs, total_duration, times, visited, generated, ret >>

\* (a repetition that calls the generator again instead of cloning input)
StateNew_Regenerates ==
    /\ pc = "while_rep"
    /\ KeepRunning(config, runs, total_duration)
    /\ runs < MaxReps
    /\ input' = Call(bm.generator, i)
    /\ generated' = Append(generated, i)
    /\ \E t \in NowReads(now) :
          /\ now' = t
          /\ state' = StateNewOf(Call(bm.generator, i), t)
          /\ calls' = << Event("new", t, TRUE) >>
    /\ got' = << >>
    /\ fpc' = 1
    /\ pc' = "bench"
    /\ UNCHANGED << procVars, outVars, panic, ppc, bm, registered,
                    i, j, runs, total_duration, times, visited, ret >>

\* One more repetition: State::new(input.clone()), which starts a Clock.
StateNew ==
    /\ pc = "while_rep"
    /\ KeepRunning(config, runs, total_duration)
    /\ runs < MaxReps
    /\ \E t \in NowReads(now) :
          /\ now' = t
          /\ state' = StateNewOf(input, t)
          /\ calls' = << Event("new", t, TRUE) >>
    /\ got' = << >>
    /\ fpc' = 1
    /\ pc' = "bench"
    /\ UNCHANGED << procVars, outVars, panic, ppc, bm, registered, loopVars, ret >>

PrintHeader_EveryRow(o, done) == Append(o, HeaderLine)

\* The header, once per process, and the row of the configuration.
PrintHeader(o, done) == IF done THEN o ELSE Append(o, HeaderLine)

Emit ==
    /\ pc = "while_rep"
    /\ ~KeepRunning(config, runs, total_duration)
    /\ out' = Append(PrintHeader(out, HEADER),
                     RowLine(BmName(bm.name, bm.fns[j][1], i), total_duration, runs))
    /\ HEADER' = TRUE
    /\ j' = j + 1
    /\ pc' = "for_fns"
    /\ UNCHANGED << procVars, panic, ppc, bm, registered,
                    i, input, runs, total_duration, times, visited, generated, stateVars >>

\* ------------------------------------------- the benchmark function's calls
Calling(op) == pc = "bench" /\ fpc <= Len(Body) /\ Body[fpc] = op

BenchFrame == UNCHANGED << procVars, outVars, ppc, bm, registered, loopVars, ret >>

\* state.pause(): Clock::pause reads the time, then checks.
StatePause ==
    /\ Calling("pause")
    /\ \E t \in NowReads(now) :
          /\ now' = t
          /\ calls' = Append(calls, Event("pause", t, ~state.clock.is_paused))
          /\ IF state.clock.is_paused
             THEN Panic(PauseMsg) /\ UNCHANGED << state, fpc >>
             ELSE /\ state' = [state EXCEPT !.clock = ClockPause(state.clock, t)]
                  /\ fpc' = fpc + 1
                  /\ UNCHANGED << panic, pc >>
    /\ UNCHANGED got
    /\ BenchFrame

\* state.resume(): Clock::resume checks, then reads the time.
StateResume ==
    /\ Calling("resume")
    /\ IF ~state.clock.is_paused
       THEN /\ Panic(ResumeMsg)
            /\ calls' = Append(calls, Event("resume", now, FALSE))
            /\ UNCHANGED << state, fpc, now >>
       ELSE \E t \in NowReads(now) :
               /\ now' = t
               /\ calls' = Append(calls, Event("resume", t, TRUE))
               /\ state' = [state EXCEPT !.clock = ClockResume(state.clock, t)]
               /\ fpc' = fpc + 1
               /\ UNCHANGED << panic, pc >>
    /\ UNCHANGED got
    /\ BenchFrame

\* (get_input() that leaves the clock alone while it takes the input)
StateGetInput_Unbracketed ==
    /\ Calling("get_input")
    /\ \E t1 \in NowReads(now) :
          IF state.clock.is_paused
          THEN /\ Panic(PauseMsg)
               /\ now' = t1
               /\ calls' = Append(calls, Event("pause", t1, FALSE))
               /\ UNCHANGED << state, fpc, got >>
          ELSE \E t2 \in NowReads(t1) :
                  /\ now' = t2
                  /\ calls' = calls \o << Event("pause", t1, TRUE),
                                          Event("resume", t2, TRUE) >>
                  /\ got' = Append(got, state.input)
                  /\ state' = ReplaceInput(state)
                  /\ fpc' = fpc + 1
                  /\ UNCHANGED << panic, pc >>
    /\ BenchFrame

\* (get_input() whose implicit pause stacks on an explicit one)
StateGetInput_Stacks ==
    /\ Calling("get_input")
    /\ \E t1 \in NowReads(now) : \E t2 \in NowReads(t1) :
          /\ now' = t2
          /\ calls' = calls \o << Event("pause", t1, ~state.clock.is_paused),
                                  Event("resume", t2, TRUE) >>
          /\ got' = Append(got, state.input)
          /\ state' = [ReplaceInput(state) EXCEPT
                          !.clock = ClockResume(ClockPause(state.clock, t1), t2)]
          /\ fpc' = fpc + 1
          /\ UNCHANGED << panic, pc >>
    /\ BenchFrame

\* state.get_input(): pause, mem::replace with the default, resume.
StateGetInput ==
    /\ Calling("get_input")
    /\ \E t1 \in NowReads(now) :
          IF state.clock.is_paused
          THEN /\ Panic(PauseMsg)
               /\ now' = t1
               /\ calls' = Append(calls, Event("pause", t1, FALSE))
               /\ UNCHANGED << state, fpc, got >>
          ELSE \E t2 \in NowReads(t1) :
                  /\ now' = t2
                  /\ calls' = calls \o << Event("pause", t1, TRUE),
                                          Event("resume", t2, TRUE) >>
                  /\ got' = Append(got, state.input)
                  /\ state' = [ReplaceInput(state) EXCEPT
                                  !.clock = ClockResume(ClockPause(state.clock, t1), t2)]
                  /\ fpc' = fpc + 1
                  /\ UNCHANGED << panic, pc >>
    /\ BenchFrame

\* (run() that drops a repetition whose State is paused and tries again)
StateFinish_Retries ==
    /\ pc = "bench"
    /\ fpc > Len(Body)
    /\ \E t \in NowReads(now) :
          /\ now' = t
          /\ calls' = Append(calls, Event("stop", t, ~state.clock.is_paused))
          /\ IF state.clock.is_paused
             THEN UNCHANGED << runs, total_duration, times, ret >>
             ELSE /\ ret' = << ClockStop(state.clock, t) >>
                  /\ total_duration' = total_duration + ClockStop(state.clock, t)
                  /\ times' = Append(times, ClockStop(state.clock, t))
                  /\ runs' = runs + 1
    /\ state' = NoState
    /\ pc' = "while_rep"
    /\ UNCHANGED << procVars, outVars, panic, ppc, bm, registered,
                    i, input, j, visited, generated, fpc, got >>

\* (finish() without its check: a paused clock is stopped like a running one)
StateFinish_Unchecked ==
    /\ pc = "bench"
    /\ fpc > Len(Body)
    /\ \E t \in NowReads(now) :
          /\ now' = t
          /\ calls' = Append(calls, Event("stop", t, TRUE))
          /\ ret' = << ClockStop(state.clock, t) >>
          /\ total_duration' = total_duration + ClockStop(state.clock, t)
          /\ times' = Append(times, ClockStop(state.clock, t))
          /\ runs' = runs + 1
          /\ state' = NoState
          /\ pc' = "while_rep"
          /\ UNCHANGED panic
    /\ UNCHANGED << procVars, outVars, ppc, bm, registered,
                    i, input, j, visited, generated, fpc, got >>

\* The function returned: total_duration += state.finish(); runs += 1.
StateFinish ==
    /\ pc = "bench"
    /\ fpc > Len(Body)
    /\ \E t \in NowReads(now) :
          /\ now' = t
          /\ calls' = Append(calls, Event("stop", t, ~state.clock.is_paused))
          /\ IF state.clock.is_paused
             THEN /\ Panic(StopMsg)
                  /\ UNCHANGED << state, runs, total_duration, times, ret >>
             ELSE /\ ret' = << ClockStop(state.clock, t) >>
                  /\ total_duration' = total_duration + ClockStop(state.clock, t)
                  /\ times' = Append(times, ClockStop(state.clock, t))
                  /\ runs' = runs + 1
                  /\ state' = NoState
                  /\ pc' = "while_rep"
                  /\ UNCHANGED panic
    /\ UNCHANGED << procVars, outVars, ppc, bm, registered,
                    i, input, j, visited, generated, fpc, got >>

\* ------------------------------------------------------------------- Spec
Next ==
    \/ WithName
    \/ WithLowerBound
    \/ WithUpperBound
    \/ WithMul
    \/ WithRange
    \/ WithGenerator
    \/ WithBench
    \/ RunEmpty
    \/ RunStart
    \/ RangeBody
    \/ RunReturn
    \/ FnSelect
    \/ RangeNext
    \/ StateNew
    \/ Emit
    \/ StatePause
    \/ StateResume
    \/ StateGetInput
    \/ StateFinish

Spec == Init /\ [][Next]_vars

\* ------------------------------------------------------------ SpecBuilder
\* Any main function: the builder calls in every order, up to run()'s check.
\* The builder never reads the Config; the process has the default one.
InitBuilder ==
    /\ config = create_config([filter |-> None, min_duration |-> 1, min_runs |-> 8])
    /\ prog = 0
    /\ InitCommon

NextBuilder ==
    \/ WithName
    \/ WithLowerBound
    \/ WithUpperBound
    \/ WithMul
    \/ WithRange
    \/ WithGenerator
    \/ WithBench
    \/ RunEmpty
    \/ RunStart

SpecBuilder == InitBuilder /\ [][NextBuilder]_vars

\* -------------------------------------------------------------- SpecState
\* Any benchmark function: run() is about to repeat a function whose body
\* makes up to MaxCalls State calls, in every order.
StateOps == { "pause", "resume", "get_input" }
Bodies == UNION { [1..n -> StateOps] : n \in 0..MaxCalls }
StateInputs == { 0, 2 }

InitState ==
    /\ config = create_config([filter |-> None, min_duration |-> 0, min_runs |-> 2])
    /\ build = "any"
    /\ prog = 0 /\ ppc = 1
    /\ HEADER = FALSE /\ out = << >> /\ panic = NoPanic
    /\ pc = "while_rep"
    /\ \E body \in Bodies, lb \in StateInputs :
          /\ bm = with_bench(with_range(with_name("example"), lb, lb, DefaultMul),
                             << "f", body >>)
          /\ i = lb
          /\ input = Call(range_generator, lb)
          /\ visited = << lb >>
          /\ generated = << lb >>
    /\ registered = << >>
    /\ j = 1 /\ runs = 0 /\ total_duration = 0 /\ times = << >>
    /\ state = NoState /\ fpc = 0
    /\ now = 0
    /\ calls = << >> /\ got = << >> /\ ret = << >>

NextState ==
    \/ StateNew
    \/ StatePause
    \/ StateResume
    \/ StateGetInput
    \/ StateFinish

SpecState == InitState /\ [][NextState]_vars

\* --------------------------------------------------------------- SpecLive
\* run() on a benchmark that keeps to the contract: lb >= 1, mul >= 2, the
\* range ends without an overflow of i, and every function returns with its
\* State running after a measured time that is not 0.  A repetition is one
\* step, and the time it measures is counted in slices of a second, so that
\* min_duration is reached in a number of repetitions the model can hold.
Tick == NanosPerSec \div LiveSlices
LiveDurations == { Tick, Tick + 1 }

\* The body's calls all succeed and leave the State running.
RECURSIVE ReturnsRunning(_, _, _)
ReturnsRunning(body, k, paused) ==
    IF k > Len(body) THEN ~paused
    ELSE CASE body[k] = "pause" -> ~paused /\ ReturnsRunning(body, k + 1, TRUE)
           [] body[k] = "resume" -> paused /\ ReturnsRunning(body, k + 1, FALSE)
           [] body[k] = "get_input" -> ~paused /\ ReturnsRunning(body, k + 1, FALSE)

LiveBenches == { b \in Benches : ReturnsRunning(b[2], 1, FALSE) }

\* The loop over lb, lb * mul, ... ends without an overflow of i.
RECURSIVE RangeEnds(_, _, _)
RangeEnds(v, ub, mul) ==
    IF v > ub THEN TRUE
    ELSE MulFits(v, mul) /\ RangeEnds(v * mul, ub, mul)

LiveRanges ==
    { r \in LowerBounds \X UpperBounds \X Muls :
         r[1] >= 1 /\ r[3] >= 2 /\ RangeEnds(r[1], r[2], r[3]) }

LiveFns == UNION { [1..n -> LiveBenches] : n \in 1..MaxFns }

InitLive ==
    /\ config \in { create_config(a) : a \in CliArgs }
    /\ build = "any"
    /\ prog = 0 /\ ppc = 1
    /\ HEADER = FALSE /\ out = << >> /\ panic = NoPanic
    /\ pc = "main"
    /\ \E r \in LiveRanges, fns \in LiveFns :
          bm = [with_range(with_name("example"), r[1], r[2], r[3])
                   EXCEPT !.fns = fns]
    /\ registered = << >>
    /\ i = 0 /\ input = 0 /\ j = 0
    /\ runs = 0 /\ total_duration = 0 /\ times = << >>
    /\ visited = << >> /\ generated = << >>
    /\ state = NoState /\ fpc = 0
    /\ now = 0
    /\ calls = << >> /\ got = << >> /\ ret = << >>

\* (a repetition whose measured time is 0)
Repeat_ZeroTime ==
    /\ pc = "while_rep"
    /\ KeepRunning(config, runs, total_duration)
    /\ runs < MaxReps
    /\ ret' = << 0 >>
    /\ times' = Append(times, 0)
    /\ runs' = runs + 1
    /\ UNCHANGED << procVars, outVars, panic, ppc, pc, bm, registered,
                    i, input, j, total_duration, visited, generated,
                    state, fpc, now, calls, got >>

\* One repetition of a function that keeps to the contract: State::new, the
\* function, finish(), total_duration += its value, runs += 1.
Repeat ==
    /\ pc = "while_rep"
    /\ KeepRunning(config, runs, total_duration)
    /\ \E d \in LiveDurations :
          /\ ret' = << d >>
          /\ total_duration' = total_duration + d
          /\ times' = Append(times, d)
    /\ runs' = runs + 1
    /\ UNCHANGED << procVars, outVars, panic, ppc, pc, bm, registered,
                    i, input, j, visited, generated,
                    state, fpc, now, calls, got >>

NextLive ==
    \/ RunStart
    \/ RangeBody
    \/ RunReturn
    \/ FnSelect
    \/ RangeNext
    \/ Repeat
    \/ Emit

\* The process is single threaded and always takes its next step.
SpecLive == InitLive /\ [][NextLive]_vars /\ WF_vars(NextLive)

\* =================================================================== claims
\* History helpers: the running segments of a Clock, read off its calls.
IsStart(e) == e.ok /\ e.op \in { "new", "resume" }
IsEnd(e) == e.ok /\ e.op \in { "pause", "stop" }

\* The start event of the segment that event k of h ends.
StartBefore(h, k) ==
    CHOOSE m \in 1..(k - 1) :
        /\ IsStart(h[m])
        /\ \A n \in (m + 1)..(k - 1) : ~IsStart(h[n])

RECURSIVE SegmentSumTo(_, _)
SegmentSumTo(h, k) ==
    IF k = 0 THEN 0
    ELSE SegmentSumTo(h, k - 1)
         + (IF IsEnd(h[k]) THEN h[k].t - h[StartBefore(h, k)].t ELSE 0)

SegmentSum(h) == SegmentSumTo(h, Len(h))

Stopped == calls # << >> /\ calls[Len(calls)].op = "stop" /\ calls[Len(calls)].ok

\* C1: the value stop() returns is the sum, over the running segments of the
\* clock, of the time from the creation or resume that starts the segment to
\* the pause or stop that ends it; paused time adds nothing.
C1_StopSumsRunningSegments ==
    Stopped => ret = << SegmentSum(calls) >>

\* A stop after two running segments with time passing in the pause between.
C1_Witness ==
    /\ Stopped
    /\ \E k \in 2..(Len(calls) - 1) :
          /\ calls[k].op = "pause" /\ calls[k + 1].op = "resume"
          /\ calls[k + 1].t > calls[k].t
          /\ calls[k].t > calls[1].t
          /\ calls[Len(calls)].t > calls[k + 1].t
    /\ ret[1] < calls[Len(calls)].t - calls[1].t

\* C2: a row is printed only when the repetition count has reached min_runs
\* and the accumulated duration has reached min_duration.
C2_RowAfterBothThresholds ==
    [][ out' # out =>
          /\ runs >= config.min_runs
          /\ total_duration >= config.min_duration ]_vars

\* A row printed after more than min_runs repetitions, the duration threshold
\* being the later one.
C2_Witness ==
    /\ pc = "for_fns" /\ j > 1 /\ Len(out) >= 2
    /\ config.min_duration > 0
    /\ runs > config.min_runs
    /\ total_duration >= config.min_duration

Running == pc \in { "while_i", "for_fns", "while_rep", "bench" }

\* C3: the loop body runs for exactly the values lb * mul^k that are <= ub,
\* in this order: the k-th value visited is lb * mul^(k-1), and each time the
\* loop condition is tested i is the next such value.
C3_RangeVisitsPowers ==
    Running =>
        /\ \A k \in 1..Len(visited) :
              /\ visited[k] = bm.range[1] * Pow(bm.range[3], k - 1)
              /\ visited[k] <= bm.range[2]
        /\ pc = "while_i" => i = bm.range[1] * Pow(bm.range[3], Len(visited))

\* C4: the first get_input() on a State returns the input it was built with,
\* every later one the default value; a get_input() is refused only when the
\* State is paused.
C4_FirstInputThenDefault ==
    /\ got # << >> => got[1] = input
    /\ \A k \in 2..Len(got) : got[k] = Default
    /\ panic = PauseMsg => state.clock.is_paused

\* Two get_input() calls on a State built with a non-default input.
C4_Witness ==
    /\ Len(got) >= 2
    /\ got[1] # Default
    /\ got[2] = Default

\* The generators registered, applied in registration order.
RECURSIVE FoldGens(_, _)
FoldGens(gs, x) ==
    IF gs = << >> THEN x ELSE FoldGens(Tail(gs), ApplyGen(Head(gs), x))

GenSamples == { 0, 1, 2, 5, Half, U64Max }

\* C5: the benchmark's generator maps i to g_n(...g_1(i)) for the generators
\* g_1..g_n registered in this order, and to i when none is registered.
C5_GeneratorsComposeInOrder ==
    Building =>
        \A x \in GenSamples : Call(bm.generator, x) = FoldGens(registered, x)

\* with_generator(gen_succ) then with_generator(gen_double): i -> 2 * (i + 1).
C5_Witness ==
    /\ Building
    /\ registered = << "gen_succ", "gen_double" >>
    /\ Call(bm.generator, 1) = 4

\* The name column of a printed row: the text before its first comma.
RECURSIVE CommaFrom(_, _)
CommaFrom(line, k) ==
    IF k > Len(line) THEN k
    ELSE IF SubSeq(line, k, k) = "," THEN k
    ELSE CommaFrom(line, k + 1)

RowName(line) == SubSeq(line, 1, CommaFrom(line, 1) - 1)

Rows == { k \in 1..Len(out) : out[k] # HeaderLine }

\* C6: whatever the number of run() calls, the header is printed once when a
\* row is printed, before the first row, and not before a row is due.
C6_HeaderOnceBeforeFirstRow ==
    /\ out # << >> =>
          /\ out[1] = HeaderLine
          /\ Rows = 2..Len(out)
          /\ Len(out) >= 2
    /\ HEADER <=> out # << >>

\* Rows of two benchmark sets of one process under a single header.
C6_Witness ==
    /\ Len(out) >= 3
    /\ \E k, m \in Rows :
          /\ SubSeq(out[k], 1, 8) = "example/"
          /\ SubSeq(out[m], 1, 6) = "other/"

\* The process is about to call run() on a benchmark without functions.
RunOnEmpty ==
    /\ pc = "main" /\ prog # 0 /\ ppc <= Len(Main)
    /\ Main[ppc].op = "run"
    /\ Len(bm.fns) = 0

\* C7: run() on a benchmark without functions panics with the empty-benchmark
\* message and prints nothing, before the generator or the loop runs.
C7_EmptyRunFailsSilently ==
    [][ RunOnEmpty =>
          /\ panic' = EmptyBenchmarkMsg
          /\ pc' = "panicked"
          /\ out' = out /\ HEADER' = HEADER
          /\ visited' = visited /\ input' = input /\ i' = i ]_vars

\* The empty run() has failed in a process that printed rows before.
C7_Witness ==
    /\ panic = EmptyBenchmarkMsg
    /\ pc = "panicked"
    /\ Len(out) = 2

\* C8: every row printed has a name the filter matches, the header is never
\* printed without such a row, and a filter that matches no name leaves the
\* output empty.
C8_RowsPassFilter ==
    /\ \A k \in Rows : is_match(config.filter, RowName(out[k]))
    /\ out # << >> => Rows # { }
    /\ config.filter = "nonexistent" => out = << >>

\* Both functions of a set were reached, and only the matching one has a row.
C8_Witness ==
    /\ config.filter = "bm_vector_gen"
    /\ pc = "for_fns" /\ Len(bm.fns) = 2 /\ j = 3
    /\ Len(out) = 2
    /\ RowName(out[2]) = "example/bm_vector_gen/1"

\* The Clock is paused before call k of h: its last pause or resume that
\* succeeded is a pause.
PausedBefore(h, k) ==
    \E m \in 1..(k - 1) :
        /\ h[m].ok /\ h[m].op = "pause"
        /\ \A n \in (m + 1)..(k - 1) : ~(h[n].ok /\ h[n].op = "resume")

C10_FinishOnlyWhenRunning ==
    /\ \A k \in 1..Len(calls) :
          calls[k].op = "stop" =>
             /\ k = Len(calls)
             /\ calls[k].ok <=> ~PausedBefore(calls, k)
             /\ calls[k].ok => (state = NoState /\ pc = "while_rep" /\ ret # << >>)
             /\ ~calls[k].ok => (panic = StopMsg /\ pc = "panicked")
    /\ panic = StopMsg => (calls[Len(calls)].op = "stop" /\ ~calls[Len(calls)].ok)
    /\ (ret # << >>) <=> runs > 0
    /\ pc = "while_rep" => state = NoState

\* A finish() refused on a State its function left paused the second time.
C10_Witness ==
    /\ panic = StopMsg
    /\ Len(calls) = 5
    /\ calls[4].op = "pause"
    /\ state.clock.is_paused
    /\ ret = << >>

\* Call k of a body comes inside a paused section: a pause() precedes it with
\* no resume() in between.
PausedAt(body, k) ==
    \E m \in 1..(k - 1) :
        /\ body[m] = "pause"
        /\ \A n \in (m + 1)..(k - 1) : body[n] # "resume"

HasPausedGetInput(body) ==
    \E k \in 1..Len(body) : body[k] = "get_input" /\ PausedAt(body, k)

\* The get_input() calls among the first n calls of a body.
GetInputsIn(body, n) == Cardinality({ k \in 1..n : body[k] = "get_input" })

InBody == pc \in { "for_fns", "while_rep", "bench" }

C13_GeneratorDropsFunctions ==
    [][ /\ (Building /\ Len(registered') = Len(registered) + 1) =>
              /\ Building'
              /\ bm'.fns = << >>
              /\ bm'.name = bm.name
              /\ bm'.range = bm.range
        /\ (Building /\ pc = "main" /\ pc' # "main" /\ bm.fns = << >>) =>
              panic' = EmptyBenchmarkMsg ]_vars

\* with_range, with_bench, with_generator, run(): the run has panicked.
C13_Witness ==
    /\ panic = EmptyBenchmarkMsg
    /\ prog # 0 /\ ppc = 5
    /\ Main[3].op = "with_bench" /\ Main[4].op = "with_generator"
    /\ Main[5].op = "run"
    /\ registered = << "gen_succ" >>
    /\ bm.fns = << >>
    /\ bm.name = "example" /\ bm.range = << 1, 2, 2 >>

\* The names, in order, of the first n functions of b that pass the filter
\* for the range value v.
RECURSIVE NamesFor(_, _, _, _)
NamesFor(b, cfg, v, n) ==
    IF n = 0 THEN << >>
    ELSE LET nm == BmName(b.name, b.fns[n][1], v) IN
         NamesFor(b, cfg, v, n - 1)
            \o (IF is_match(cfg.filter, nm) THEN << nm >> ELSE << >>)

\* The k-th value of the range of b.
RangeValue(b, k) == b.range[1] * Pow(b.range[3], k - 1)

\* The names of every (function, value) pair over the first k range values.
RECURSIVE NamesUpTo(_, _, _)
NamesUpTo(b, cfg, k) ==
    IF k = 0 THEN << >>
    ELSE NamesUpTo(b, cfg, k - 1) \o NamesFor(b, cfg, RangeValue(b, k), Len(b.fns))

\* run() is under way (or has panicked past its check of the function list).
InRun ==
    \/ pc \in { "while_i", "for_fns", "while_rep", "bench" }
    \/ pc = "panicked" /\ panic # EmptyBenchmarkMsg

\* The names of the pairs run() is done with: every function for the values
\* before the current one, and the first j - 1 functions for the current one.
NamesDue ==
    IF pc = "while_i" THEN NamesUpTo(bm, config, Len(visited))
    ELSE NamesUpTo(bm, config, Len(visited) - 1)
            \o NamesFor(bm, config, RangeValue(bm, Len(visited)), j - 1)

RowsOfSet(name) ==
    { k \in Rows : SubSeq(out[k], 1, Len(name) + 1) = name \o "/" }

\* C14: at every point of run() the rows it has printed are, in order, one
\* row for each (function, range value) pair it is done with whose name
\* setName/functionName/i passes the filter, and no other row.
C14_OneRowPerPassingPair ==
    /\ BmName("example", "bm_vector_range", 1024) = "example/bm_vector_range/1024"
    /\ InRun =>
          LET due == NamesDue IN
          /\ Len(out) >= Len(due)
          /\ \A k \in 1..Len(due) :
                RowName(out[Len(out) - Len(due) + k]) = due[k]
          /\ Cardinality(RowsOfSet(bm.name)) = Len(due)

\* Reading the decimal number of a row's second column.
DigitOf(c) ==
    CASE c = "0" -> 0 [] c = "1" -> 1 [] c = "2" -> 2 [] c = "3" -> 3
      [] c = "4" -> 4 [] c = "5" -> 5 [] c = "6" -> 6 [] c = "7" -> 7
      [] c = "8" -> 8 [] c = "9" -> 9

RECURSIVE ParseNat(_)
ParseNat(str) ==
    IF Len(str) = 0 THEN 0
    ELSE ParseNat(SubSeq(str, 1, Len(str) - 1)) * 10
         + DigitOf(SubSeq(str, Len(str), Len(str)))

Reported(line) == ParseNat(SubSeq(line, CommaFrom(line, 1) + 1, Len(line)))

RECURSIVE Sum(_)
Sum(seq) == IF seq = << >> THEN 0 ELSE Head(seq) + Sum(Tail(seq))

MinOf(seq) == CHOOSE x \in { seq[k] : k \in 1..Len(seq) } :
                 \A k \in 1..Len(seq) : x <= seq[k]
MaxOf(seq) == CHOOSE x \in { seq[k] : k \in 1..Len(seq) } :
                 \A k \in 1..Len(seq) : x >= seq[k]

\* The last line printed is the row of the configuration run() repeated last.
RowJustPrinted == out # << >> /\ pc \in { "for_fns", "while_i", "main" }

\* C15: total_duration is the sum of the values finish() returned in the runs
\* repetitions of the configuration, and the number printed in its row is
\* total_duration / runs rounded down: runs * v <= total_duration <
\* runs * (v + 1), and v lies between the shortest and the longest repetition.
C15_RowReportsTruncatedMean ==
    /\ Len(times) = runs
    /\ Sum(times) = total_duration
    /\ RowJustPrinted =>
          LET v == Reported(out[Len(out)]) IN
          /\ runs > 0
          /\ v = total_duration \div runs
          /\ runs * v <= total_duration
          /\ total_duration < runs * (v + 1)
          /\ MinOf(times) <= v
          /\ v <= MaxOf(times)

\* A row whose mean was rounded down and lies strictly between the times of
\* its repetitions.
C15_Witness ==
    /\ RowJustPrinted
    /\ total_duration % runs # 0
    /\ MinOf(times) < Reported(out[Len(out)])
    /\ Reported(out[Len(out)]) < MaxOf(times)

\* Values of --min_runs (a u8) taken as samples.
MinRunsSamples == { 0, 1, 2, 3, 255 }

\* C16: the min_runs of the Config is the configured one raised to at least 2,
\* so every row printed is the mean of at least 2 repetitions and the division
\* is never by zero, also when min_duration is 0.
C16_AtLeastTwoRuns ==
    /\ \A r \in MinRunsSamples, d \in Secs :
          LET c == create_config([filter |-> None, min_duration |-> d,
                                  min_runs |-> r]) IN
          /\ c.min_runs >= MinMinRuns
          /\ c.min_runs = (IF r < MinMinRuns THEN MinMinRuns ELSE r)
    /\ config.min_runs >= MinMinRuns
    /\ RowJustPrinted =>
          /\ runs >= MinMinRuns
          /\ Len(times) >= MinMinRuns

\* --min_runs 1 --min_duration 0: a row after two repetitions that took no
\* measurable time.
C16_Witness ==
    /\ \E a \in CliArgs :
          /\ a.min_runs < MinMinRuns /\ a.min_duration = 0
          /\ config = create_config(a)
    /\ RowJustPrinted
    /\ runs = MinMinRuns
    /\ total_duration = 0
    /\ Reported(out[Len(out)]) = 0

\* Names run() composes from the model's sets and functions.
AllBmNames ==
    { BmName(n, b[1], v) : n \in Names, b \in Benches, v \in { 1, 1024 } }

\* The (function, visit) pairs run() is done with.
PairsDone ==
    IF pc = "while_i" THEN Len(visited) * Len(bm.fns)
    ELSE (Len(visited) - 1) * Len(bm.fns) + (j - 1)

\* C17: the empty pattern matches every name; an absent filter and a pattern
\* Regex::new rejects both give the empty pattern, and under it run() goes on
\* and prints a row for every function and every value it is done with.
C17_NoFilterRunsEverything ==
    /\ \A nm \in AllBmNames : is_match("", nm)
    /\ \A a \in CliArgs :
          (a.filter = None \/ ~RegexNewOk(a.filter)) =>
             /\ create_config(a).filter = ""
             /\ \A nm \in AllBmNames : should_run_bm(create_config(a), nm)
    /\ (config.filter = "" /\ InRun) =>
          Cardinality(RowsOfSet(bm.name)) = PairsDone

\* --filter "(": the pattern is rejected and the first configuration has its
\* row all the same.
C17_Witness ==
    /\ \E a \in CliArgs : ~RegexNewOk(a.filter) /\ config = create_config(a)
    /\ config.filter = ""
    /\ RowJustPrinted
    /\ InRun
    /\ PairsDone >= 1
    /\ Cardinality(RowsOfSet(bm.name)) = PairsDone

\* run() is under way on a range with a multiplier that is not above 1.
LowMul == InRun /\ bm.range[3] <= 1

\* C18 as stated: with a multiplier that is not above 1 the loop of run()
\* never ends, i.e. its condition i <= ub holds whenever it is tested.
C18_LowMulNeverEnds ==
    LowMul => i <= bm.range[2]

\* C18, amended: with a multiplier that is not above 1 and lb <= ub the loop of
\* run() never ends: i stays lb (multiplier 1) or is 0 from the second value
\* on (multiplier 0), which is never above ub; run() uses the multiplier as
\* it is.  With lb > ub the loop ends at once.
C18_LowMulNeverEndsUnlessEmpty ==
    /\ (LowMul /\ bm.range[1] <= bm.range[2]) =>
          /\ i <= bm.range[2]
          /\ \A k \in 1..Len(visited) : visited[k] = RangeValue(bm, k)
          /\ pc = "while_i" => i = RangeValue(bm, Len(visited) + 1)
          /\ panic # OverflowMsg
    /\ (LowMul /\ bm.range[1] > bm.range[2]) =>
          /\ pc = "while_i" /\ visited = << >>
          /\ ~(i <= bm.range[2])

\* Multiplier 1: the loop is back at its test with the value it has visited
\* MaxVisits times.
C18_Witness ==
    /\ LowMul
    /\ bm.range[3] = 1
    /\ pc = "while_i"
    /\ Len(visited) = MaxVisits
    /\ \A k \in 1..Len(visited) : visited[k] = i
    /\ i <= bm.range[2]

\* C19: a get_input() on a running State returns with the State running; it
\* adds to elapsed the time up to its own pause and restarts the measure at its
\* own resume, so the time in between (the extraction) is not measured.  The
\* input a State stores is, at every moment, the one it was built with or the
\* default value.
C19_GetInputBracketsExtraction ==
    [][ /\ (Calling("get_input") /\ ~state.clock.is_paused) =>
              LET n == Len(calls')
                  t1 == calls'[n - 1].t
                  t2 == calls'[n].t
              IN /\ n = Len(calls) + 2
                 /\ t1 <= t2
                 /\ ~state'.clock.is_paused
                 /\ state'.clock.elapsed_time =
                       state.clock.elapsed_time + (t1 - state.clock.start_time)
                 /\ state'.clock.start_time = t2
                 /\ panic' = NoPanic
                 /\ got' = Append(got, state.input)
        /\ state' # NoState => state'.input \in { input', Default }
      ]_vars

\* A get_input() that took time on a State that had run for a while: only the
\* time before the extraction is in elapsed.
C19_Witness ==
    /\ pc = "bench" /\ fpc = 2
    /\ Body[1] = "get_input"
    /\ Len(calls) = 3
    /\ calls[2].t > calls[1].t
    /\ calls[3].t > calls[2].t
    /\ ~state.clock.is_paused
    /\ state.clock.elapsed_time = calls[2].t - calls[1].t
    /\ state.clock.start_time = calls[3].t
    /\ got = << 2 >>
    /\ state.input = Default

\* C20: every repetition starts on a new State: a running Clock started at
\* the time of construction with nothing elapsed, no call made on it yet, and
\* as input a copy of the generator's output for the current i, whatever the
\* States before it did with theirs.  A State lasts for one repetition, and
\* the calls on it leave run()'s own input alone.
C20_FreshStatePerRepetition ==
    [][ /\ (pc = "while_rep" /\ pc' = "bench") =>
              /\ state = NoState
              /\ state' = [clock |-> ClockNew(now'), input |-> input]
              /\ state'.input = Call(bm.generator, i)
              /\ ~state'.clock.is_paused /\ state'.clock.elapsed_time = 0
              /\ calls' = << Event("new", now', TRUE) >>
              /\ got' = << >>
        /\ pc = "bench" => (input' = input /\ i' = i)
        /\ (pc = "bench" /\ pc' = "while_rep") => state' = NoState
        /\ (got' # got /\ got = << >>) => got' = << Call(bm.generator, i) >>
      ]_vars

\* The second function starts a repetition after others, each of which took
\* its input: the new State holds the generator's output again.
C20_Witness ==
    /\ pc = "bench" /\ fpc = 1
    /\ Len(bm.fns) = 2 /\ j = 2
    /\ runs >= 1
    /\ calls = << Event("new", now, TRUE) >>
    /\ got = << >>
    /\ state = StateNewOf(input, now)
    /\ input # Default
    /\ now > 0

\* C21: a repetition starts only while runs < min_runs or total_duration <
\* min_duration, so when a row is printed one of the two still held before the
\* last repetition; nothing bounds the thresholds from above.
C21_StopsWhenBothMet ==
    [][ /\ (pc = "while_rep" /\ pc' = "bench") =>
              (runs < config.min_runs \/ total_duration < config.min_duration)
        /\ out' # out =>
              /\ runs >= 1
              /\ \/ runs - 1 < config.min_runs
                 \/ total_duration - times[runs] < config.min_duration
      ]_vars

\* One repetition of a second with min_duration 0: the row is printed after
\* min_runs repetitions with a total far past the threshold.
C21_Witness ==
    /\ RowJustPrinted
    /\ config.min_duration = 0
    /\ runs = config.min_runs
    /\ MaxOf(times) >= NanosPerSec
    /\ total_duration >= NanosPerSec

\* The function has returned and left its State paused.
ReturnedPaused == pc = "bench" /\ fpc > Len(Body) /\ state.clock.is_paused

\* C22: when a function returns with its State paused, finish() panics with
\* the stop message: nothing is printed for the configuration, the output so
\* far stays, the repetition is not counted or tried again, and the process
\* takes no further step, so no later configuration runs.
C22_PausedReturnIsFatal ==
    [][ /\ pc # "panicked"
        /\ ReturnedPaused =>
              /\ panic' = StopMsg
              /\ pc' = "panicked"
              /\ out' = out /\ HEADER' = HEADER
              /\ runs' = runs /\ j' = j ]_vars

\* The second function of a set returned paused: the row of the first is
\* there, its own is not, and the next benchmark of the main never starts.
C22_Witness ==
    /\ panic = StopMsg /\ pc = "panicked"
    /\ Body = bm_paused /\ j = 2
    /\ runs = 0
    /\ Len(out) = 2
    /\ RowName(out[2]) = "example/bm_vector_gen/2"
    /\ prog # 0 /\ ppc < Len(Main)

\* The for loop of run() is at a function whose name the filter rejects.
AtRejected ==
    /\ pc = "for_fns" /\ j <= Len(bm.fns)
    /\ ~is_match(config.filter, BmName(bm.name, bm.fns[j][1], i))

\* C23: a function whose name the filter rejects is passed over: the loop
\* goes to the next function with no State built, no call made, no time read,
\* nothing printed and the header flag as it was; a State is only ever built
\* for a name the filter matches.
C23_RejectedIsSkippedSilently ==
    [][ /\ AtRejected =>
              /\ pc' = "for_fns" /\ j' = j + 1
              /\ i' = i /\ input' = input
              /\ state' = state /\ state = NoState
              /\ calls' = calls /\ got' = got /\ now' = now
              /\ out' = out /\ HEADER' = HEADER
              /\ panic' = NoPanic
        /\ (pc' = "bench") =>
              is_match(config.filter, BmName(bm.name, bm.fns[j][1], i))
      ]_vars

\* --filter bm_vector_gen on two functions over two values: run() is through,
\* with the two rows of bm_vector_gen, bm_vector_range passed over twice.
C23_Witness ==
    /\ config.filter = "bm_vector_gen"
    /\ pc = "while_i" /\ ~(i <= bm.range[2])
    /\ Len(bm.fns) = 2 /\ bm.fns[2][1] = "bm_vector_range"
    /\ Len(visited) = 2
    /\ Len(out) = 3
    /\ RowName(out[2]) = "example/bm_vector_gen/1"
    /\ RowName(out[3]) = "example/bm_vector_gen/2"

\* The names of the pairs run() is done with, by the values it has visited.
RECURSIVE NamesVisited(_)
NamesVisited(k) ==
    IF k = 0 THEN << >>
    ELSE NamesVisited(k - 1) \o NamesFor(bm, config, visited[k], Len(bm.fns))

NamesDone ==
    IF pc = "while_i" THEN NamesVisited(Len(visited))
    ELSE NamesVisited(Len(visited) - 1)
            \o NamesFor(bm, config, visited[Len(visited)], j - 1)

\* C24: the range values of a run() come in ascending order, and its rows are
\* in the order of the loops: by range value, then by function in registration
\* order; while a configuration is repeated the rows of all configurations
\* before it are printed and its own is not, and a State exists only inside a
\* repetition.
C24_RowsInLoopOrder ==
    (InRun /\ bm.range[1] >= 1 /\ bm.range[3] >= 2) =>
        /\ \A k \in 1..(Len(visited) - 1) : visited[k] < visited[k + 1]
        /\ LET done == NamesDone IN
           /\ Len(out) >= Len(done)
           /\ \A k \in 1..Len(done) :
                 RowName(out[Len(out) - Len(done) + k]) = done[k]
           /\ Cardinality(RowsOfSet(bm.name)) = Len(done)
        /\ state # NoState => pc \in { "bench", "panicked" }

\* The step makes a pause() that succeeds (its own, or that of get_input()).
PauseStep ==
    /\ Len(calls') > Len(calls)
    /\ calls'[Len(calls) + 1].op = "pause"
    /\ calls'[Len(calls) + 1].ok

\* C25: over the life of a State the clock's elapsed_time changes only in a
\* pause(), by the time since start_time, and never decreases; resume() only
\* sets start_time and the flag; while the clock is paused elapsed_time stays
\* as it is, whatever the time read; stop() returns elapsed_time plus the open
\* segment.
C25_ElapsedChangesOnlyInPause ==
    [][ /\ (state # NoState /\ state' # NoState) =>
              /\ state'.clock.elapsed_time >= state.clock.elapsed_time
              /\ state'.clock.elapsed_time # state.clock.elapsed_time => PauseStep
              /\ (PauseStep /\ Calling("pause")) =>
                    /\ state'.clock.elapsed_time =
                          state.clock.elapsed_time + (now' - state.clock.start_time)
                    /\ state'.clock.start_time = state.clock.start_time
              /\ state.clock.is_paused =>
                    state'.clock.elapsed_time = state.clock.elapsed_time
              /\ (Calling("resume") /\ state.clock.is_paused) =>
                    /\ ~state'.clock.is_paused
                    /\ state'.clock.start_time = now'
        /\ (state # NoState /\ state' = NoState) =>
              /\ ~state.clock.is_paused
              /\ ret' = << state.clock.elapsed_time
                           + (now' - state.clock.start_time) >>
      ]_vars

\* pause() after some time, resume() after some more: elapsed_time is the
\* first segment, the paused time is not in it.
C25_Witness ==
    /\ pc = "bench" /\ fpc = 3
    /\ Body[1] = "pause" /\ Body[2] = "resume"
    /\ Len(calls) = 3
    /\ calls[2].t > calls[1].t
    /\ calls[3].t > calls[2].t
    /\ ~state.clock.is_paused
    /\ state.clock.elapsed_time = calls[2].t - calls[1].t
    /\ state.clock.start_time = calls[3].t

\* The number of values of the range of b: lb, lb * mul, ... up to ub.
RECURSIVE RangeCount(_, _, _)
RangeCount(v, ub, mul) == IF v > ub THEN 0 ELSE 1 + RangeCount(v * mul, ub, mul)

\* The range loop has ended with a row for every configuration of the
\* benchmark that passes the filter, and nothing else printed but the header.
AtExitWithAllRows ==
    /\ pc = "while_i" /\ ~(i <= bm.range[2])
    /\ LET all == NamesUpTo(bm, config,
                            RangeCount(bm.range[1], bm.range[2], bm.range[3]))
       IN /\ Len(out) = (IF all = << >> THEN 0 ELSE Len(all) + 1)
          /\ \A k \in 1..Len(all) : RowName(out[k + 1]) = all[k]

Returned == pc = "main" /\ bm = NoBench

\* C26: run() on a benchmark with lb >= 1, mul >= 2, a range that ends
\* without overflow, at least one function, and repetitions that return
\* running with a measured time above 0, comes to the end of its range loop
\* with one row for every configuration that passes the filter, and returns.
C26_RunTerminates ==
    /\ <>AtExitWithAllRows
    /\ <>[]Returned

\* run() has returned after printing rows under a min_duration of a second.
C26_Witness ==
    /\ Returned
    /\ config.min_duration > 0
    /\ Len(out) >= 3
    /\ Len(visited) >= 2
    /\ panic = NoPanic

\* Arguments of with_range taken as samples.
RangeSamples == { << 1, 1, 0 >>, << 2, U64Max, 3 >>, << Half, 2, 1 >>, << 2, 2, 2 >> }

\* b2 is b but for its range.
SameButRange(b2, b) ==
    /\ b2.name = b.name
    /\ b2.fns = b.fns
    /\ b2.generator = b.generator

\* C27: on every benchmark a main can have built, with_lower_bound,
\* with_upper_bound and with_mul change their one component of the range,
\* with_range the three of them, and nothing else; with_bench puts its
\* function after the ones registered and changes nothing else.  with_name
\* gives the range (1, 2^20, 2), no functions and the generator that returns i.
C27_BuilderCallsKeepTheRest ==
    /\ \A n \in Names :
          /\ with_name(n).name = n
          /\ with_name(n).range = << 1, 1048576, 2 >>
          /\ with_name(n).fns = << >>
          /\ \A x \in GenSamples : Call(with_name(n).generator, x) = x
    /\ Building =>
          /\ \A lb \in LowerBounds :
                /\ SameButRange(with_lower_bound(bm, lb), bm)
                /\ with_lower_bound(bm, lb).range
                      = << lb, bm.range[2], bm.range[3] >>
          /\ \A ub \in UpperBounds :
                /\ SameButRange(with_upper_bound(bm, ub), bm)
                /\ with_upper_bound(bm, ub).range
                      = << bm.range[1], ub, bm.range[3] >>
          /\ \A mul \in Muls :
                /\ SameButRange(with_mul(bm, mul), bm)
                /\ with_mul(bm, mul).range = << bm.range[1], bm.range[2], mul >>
          /\ \A r \in RangeSamples :
                /\ SameButRange(with_range(bm, r[1], r[2], r[3]), bm)
                /\ with_range(bm, r[1], r[2], r[3]).range = r
          /\ \A t \in Benches :
                LET b2 == with_bench(bm, t) IN
                /\ b2.name = bm.name
                /\ b2.range = bm.range
                /\ b2.generator = bm.generator
                /\ Len(b2.fns) = Len(bm.fns) + 1
                /\ b2.fns[Len(b2.fns)] = t
                /\ SubSeq(b2.fns, 1, Len(bm.fns)) = bm.fns

\* A benchmark with a generator and two functions whose lower bound alone was
\* set: the rest of the range is with_name's.
C27_Witness ==
    /\ Building
    /\ bm.name = "other"
    /\ bm.range = << Half, Pow(2, DefaultUpperBoundShift), DefaultMul >>
    /\ Len(bm.fns) = 2
    /\ bm.fns[1][1] = "bm_vector_range" /\ bm.fns[2][1] = "bm_vector_gen"
    /\ registered = << "gen_double" >>

====
